---- MODULE Spec2Model ----
(***************************************************************************)
(* A model of fback.py (BackupKiller): the URL decomposer, the pattern     *)
(* formatter, the two combinators, the range parsers and the part of       *)
(* main() that parses the ranges, generates the result sets and assembles  *)
(* the output.  Python strings are TLA+ strings; Len, \o, SubSeq, Head and *)
(* Tail act on them character by character.                                *)
(***************************************************************************)
EXTENDS Integers, Sequences, FiniteSets, TLC

(***************************************************************************)
(* Python's str primitives, as the code uses them.                         *)
(***************************************************************************)

\* The element of a one-element set.  The({e : x \in {d}}) is e with x standing
\* for the value of d, computed once: the way a Python local holds the value
\* of the expression assigned to it.
The(S) == CHOOSE v \in S : TRUE

\* The outcome of a call that can raise: [raised |-> TRUE] is the exception
\* (a ValueError) leaving the function, Return(v) the value v returned.
Raise == [raised |-> TRUE, value |-> <<>>]

Return(v) == [raised |-> FALSE, value |-> v]

\* The characters of the model's strings in code-point order: the printable
\* ASCII range without the grave accent (96), which a TLA+ string cannot hold.
AsciiLow == " !\"#$%&'()*+,-./0123456789:;<=>?@ABCDEFGHIJKLMNOPQRSTUVWXYZ[\\]^_"

AsciiHigh == "abcdefghijklmnopqrstuvwxyz{|}~"

\* ord(c) for a one-character string.
Ord(c) ==
    The({ IF \E i \in 1..Len(AsciiLow) : SubSeq(AsciiLow, i, i) = ch
          THEN 31 + (CHOOSE i \in 1..Len(AsciiLow) : SubSeq(AsciiLow, i, i) = ch)
          ELSE 96 + (CHOOSE i \in 1..Len(AsciiHigh) : SubSeq(AsciiHigh, i, i) = ch)
          : ch \in {c} })

Digits == {"0", "1", "2", "3", "4", "5", "6", "7", "8", "9"}

Letters ==
    {SubSeq(AsciiLow, i, i) : i \in 34..59} \cup {SubSeq(AsciiHigh, i, i) : i \in 1..26}

\* s[i] for a 1-based index.
CharAt(s, i) == SubSeq(s, i, i)

\* s[i-1:] (the suffix from the 1-based index i).
From(s, i) == The({ SubSeq(str, i, Len(str)) : str \in {s} })

\* s[:n]
Prefix(s, n) ==
    The({ SubSeq(str, 1, IF k < Len(str) THEN k ELSE Len(str)) : str \in {s}, k \in {n} })

\* s.startswith(t)
StartsWith(s, t) ==
    The({ Len(sub) <= Len(str) /\ SubSeq(str, 1, Len(sub)) = sub : str \in {s}, sub \in {t} })

\* The smallest element of a non-empty set of integers.
Min(S) == The({ (CHOOSE i \in T : \A j \in T : i <= j) : T \in {S} })

\* The largest element of a non-empty set of integers.
Max(S) == The({ (CHOOSE i \in T : \A j \in T : i >= j) : T \in {S} })

\* The 1-based indices at which t occurs in s.
Occurrences(s, t) ==
    The({ {i \in 1..(Len(str) - Len(sub) + 1) : SubSeq(str, i, i + Len(sub) - 1) = sub}
          : str \in {s}, sub \in {t} })

\* s.find(t) + 1: the 1-based index of the first occurrence of t, 0 if none.
Find(s, t) == The({ IF hits = {} THEN 0 ELSE Min(hits) : hits \in {Occurrences(s, t)} })

\* s.rfind(t) + 1: the 1-based index of the last occurrence of t, 0 if none.
RFind(s, t) == The({ IF hits = {} THEN 0 ELSE Max(hits) : hits \in {Occurrences(s, t)} })

\* t in s
Contains(s, t) == Find(s, t) > 0

\* s.replace(old, new) for a non-empty old: every occurrence, scanning left to
\* right, occurrences not overlapping, the replacement text never rescanned.
RECURSIVE Replace(_, _, _)
Replace(s, old, new) ==
    The({ The({ IF i = 0 THEN str
                ELSE SubSeq(str, 1, i - 1) \o new \o
                     Replace(SubSeq(str, i + Len(sub), Len(str)), sub, new)
                : i \in {Find(str, sub)} })
          : str \in {s}, sub \in {old} })

\* s.split(sep) for a non-empty sep: always at least one part.
RECURSIVE Split(_, _)
Split(s, sep) ==
    The({ The({ IF i = 0 THEN <<str>>
                ELSE <<SubSeq(str, 1, i - 1)>> \o
                     Split(SubSeq(str, i + Len(sub), Len(str)), sub)
                : i \in {Find(str, sub)} })
          : str \in {s}, sub \in {sep} })

\* sep.join(parts)
RECURSIVE Join(_, _)
Join(parts, sep) ==
    The({ IF list = <<>> THEN ""
          ELSE IF Len(list) = 1 THEN list[1]
          ELSE list[1] \o sep \o Join(Tail(list), sep)
          : list \in {parts} })

\* s.isdigit()
IsDigit(s) ==
    The({ (Len(str) > 0 /\ \A i \in 1..Len(str) : CharAt(str, i) \in Digits) : str \in {s} })

\* s.strip() of the whitespace the model's alphabet has (the space).
RECURSIVE LStrip(_)
LStrip(s) ==
    The({ IF Len(str) > 0 /\ Head(str) = " " THEN LStrip(Tail(str)) ELSE str : str \in {s} })

RECURSIVE RStrip(_)
RStrip(s) ==
    The({ IF Len(str) > 0 /\ CharAt(str, Len(str)) = " "
          THEN RStrip(SubSeq(str, 1, Len(str) - 1)) ELSE str
          : str \in {s} })

Strip(s) == LStrip(RStrip(s))

DigitVal(c) == Ord(c) - 48

\* The value of a string of digits and underscores, the underscores skipped.
RECURSIVE DigitsVal(_, _)
DigitsVal(s, acc) ==
    The({ IF str = "" THEN n
          ELSE IF Head(str) = "_" THEN DigitsVal(Tail(str), n)
          ELSE DigitsVal(Tail(str), 10 * n + DigitVal(Head(str)))
          : str \in {s}, n \in {acc} })

\* The text int() reads the digits from: s without surrounding whitespace and
\* without one leading sign.
IntBody(s) ==
    The({ IF Len(t) > 0 /\ Head(t) \in {"+", "-"} THEN Tail(t) ELSE t : t \in {Strip(s)} })

\* int(s): surrounding whitespace is dropped, one sign is allowed, then decimal
\* digits, single underscores allowed between digits.  [ok |-> FALSE] stands for
\* the ValueError int() raises.
PyInt(s) ==
    The({ IF /\ Len(body) > 0
             /\ Head(body) \in Digits
             /\ CharAt(body, Len(body)) \in Digits
             /\ (\A i \in 1..Len(body) : CharAt(body, i) \in Digits \cup {"_"})
             /\ ~ Contains(body, "__")
          THEN [ok |-> TRUE,
                val |-> IF Len(t) > 0 /\ Head(t) = "-" THEN 0 - DigitsVal(body, 0)
                        ELSE DigitsVal(body, 0)]
          ELSE [ok |-> FALSE, val |-> 0]
          : t \in {Strip(s)}, body \in {IntBody(s)} })

\* str(n) for an integer n.
RECURSIVE NatStr(_)
NatStr(n) ==
    The({ IF k < 10 THEN CharAt(AsciiLow, k + 17)
          ELSE NatStr(k \div 10) \o CharAt(AsciiLow, (k % 10) + 17)
          : k \in {n} })

PyStr(n) == The({ IF k < 0 THEN "-" \o NatStr(0 - k) ELSE NatStr(k) : k \in {n} })

\* Fmt02d without the padding.
Fmt02d_unpadded(n) == PyStr(n)

\* f"{n:02d}": the decimal digits, zero-padded to a width of two.
Fmt02d(n) == The({ IF 0 <= k /\ k < 10 THEN "0" \o NatStr(k) ELSE PyStr(k) : k \in {n} })

\* list(range(a, b)): the integers from a up to, not including, b.
PyRange(a, b) ==
    The({ [i \in 1..(IF hi > lo THEN hi - lo ELSE 0) |-> lo + i - 1] : lo \in {a}, hi \in {b} })

\* s1 < s2 in Python's ordering of str (by code point, a proper prefix first).
RECURSIVE StrLess(_, _)
StrLess(s1, s2) ==
    The({ IF y = "" THEN FALSE
          ELSE IF x = "" THEN TRUE
          ELSE IF Head(x) = Head(y) THEN StrLess(Tail(x), Tail(y))
          ELSE Ord(Head(x)) < Ord(Head(y))
          : x \in {s1}, y \in {s2} })

\* min(S) for a non-empty set of strings.
StrMin(S) == The({ (CHOOSE x \in T : \A y \in T : x = y \/ StrLess(x, y)) : T \in {S} })

\* sorted(S) for a set of strings.
RECURSIVE Sorted(_)
Sorted(S) ==
    The({ IF T = {} THEN <<>>
          ELSE The({ <<m>> \o Sorted(T \ {m}) : m \in {StrMin(T)} })
          : T \in {S} })

\* s.lower() on the ASCII letters.
RECURSIVE Lower(_)
Lower(s) ==
    The({ IF str = "" THEN ""
          ELSE The({ (IF o >= 65 /\ o <= 90 THEN CharAt(AsciiHigh, o - 64) ELSE Head(str))
                     \o Lower(Tail(str))
                     : o \in {Ord(Head(str))} })
          : str \in {s} })


(***************************************************************************)
(* urllib.parse (CPython 3.11), on strings without control characters and  *)
(* without ']' (the validation of a bracketed host is not modelled).       *)
(* urlsplit, and with it urlparse and urljoin, raises ValueError on a       *)
(* network location that holds one square bracket and not the other.       *)
(***************************************************************************)

uses_relative ==
    {"", "ftp", "http", "gopher", "nntp", "imap", "wais", "file", "https", "shttp",
     "mms", "prospero", "rtsp", "rtsps", "rtspu", "sftp", "svn", "svn+ssh", "ws", "wss"}

uses_netloc ==
    {"", "ftp", "http", "gopher", "nntp", "telnet", "imap", "wais", "file", "mms",
     "https", "shttp", "snews", "prospero", "rtsp", "rtsps", "rtspu", "rsync", "svn",
     "svn+ssh", "sftp", "nfs", "git", "git+ssh", "ws", "wss"}

uses_params ==
    {"", "ftp", "hdl", "prospero", "http", "imap", "https", "shttp", "rtsp", "rtsps",
     "rtspu", "sip", "sips", "mms", "sftp", "tel"}

scheme_chars == Letters \cup Digits \cup {"+", "-", "."}

\* The smaller of two 1-based indices, 0 standing for "not found".
MinFound(i, j) ==
    The({ IF a = 0 THEN b ELSE IF b = 0 THEN a ELSE IF a < b THEN a ELSE b
          : a \in {i}, b \in {j} })

\* urlsplit, first step: the scheme, and the text after "scheme:".
SplitScheme(url, default_scheme) ==
    The({ The({ IF /\ i > 1
                   /\ Head(u) \in Letters
                   /\ (\A k \in 1..(i - 1) : CharAt(u, k) \in scheme_chars)
                THEN [scheme |-> Lower(SubSeq(u, 1, i - 1)), rest |-> From(u, i + 1)]
                ELSE [scheme |-> default_scheme, rest |-> u]
                : i \in {Find(u, ":")} })
          : u \in {LStrip(url)} })

\* urlsplit, second step: the network location after "//", up to the first of
\* '/', '?' and '#', and the text from there on.
SplitNetloc(url) ==
    The({ IF Prefix(u, 2) # "//" THEN [netloc |-> "", rest |-> u]
          ELSE The({ The({ IF delim = 0 THEN [netloc |-> r, rest |-> ""]
                           ELSE [netloc |-> SubSeq(r, 1, delim - 1), rest |-> From(r, delim)]
                           : delim \in {MinFound(Find(r, "/"),
                                                 MinFound(Find(r, "?"), Find(r, "#")))} })
                     : r \in {From(u, 3)} })
          : u \in {url} })

\* s.split(sep, 1): the text before the first sep and the text after it.
SplitOnce(s, sep) ==
    The({ The({ IF i = 0 THEN [head |-> str, tail |-> ""]
                ELSE [head |-> SubSeq(str, 1, i - 1), tail |-> From(str, i + 1)]
                : i \in {Find(str, sep)} })
          : str \in {s} })

\* ('[' in netloc and ']' not in netloc) or (']' in netloc and '[' not in netloc)
InvalidNetloc(netloc) ==
    The({ \/ Contains(n, "[") /\ ~ Contains(n, "]")
          \/ Contains(n, "]") /\ ~ Contains(n, "[")
          : n \in {netloc} })

\* urlsplit(url, scheme): scheme, network location, path, query, fragment.
urlsplit(url, default_scheme) ==
    The({ The({ IF InvalidNetloc(n.netloc) THEN Raise
                ELSE The({ The({ Return([scheme   |-> s.scheme,
                                         netloc   |-> n.netloc,
                                         path     |-> q.head,
                                         query    |-> q.tail,
                                         fragment |-> f.tail])
                                 : q \in {SplitOnce(f.head, "?")} })
                           : f \in {SplitOnce(n.rest, "#")} })
                : n \in {SplitNetloc(s.rest)} })
          : s \in {SplitScheme(url, default_scheme)} })

\* The index of the first ';' of the last segment of url, 0 if it has none.
ParamsIndex(url) ==
    The({ The({ IF slash = 0 THEN Find(u, ";")
                ELSE The({ IF k = 0 THEN 0 ELSE slash - 1 + k
                           : k \in {Find(From(u, slash), ";")} })
                : slash \in {RFind(u, "/")} })
          : u \in {url} })

\* _splitparams(url): the path and the parameters of its last segment.
splitparams(url) ==
    The({ IF RFind(u, "/") > 0 /\ i = 0 THEN [path |-> u, params |-> ""]
          ELSE [path |-> SubSeq(u, 1, i - 1), params |-> From(u, i + 1)]
          : u \in {url}, i \in {ParamsIndex(url)} })

\* urlparse(url, scheme)
urlparse(url, default_scheme) ==
    The({ IF split.raised THEN Raise
          ELSE The({ The({ Return([scheme |-> r.scheme, netloc |-> r.netloc,
                                   path |-> sp.path, params |-> sp.params,
                                   query |-> r.query, fragment |-> r.fragment])
                           : sp \in {IF r.scheme \in uses_params /\ Contains(r.path, ";")
                                     THEN splitparams(r.path)
                                     ELSE [path |-> r.path, params |-> ""]} })
                     : r \in {split.value} })
          : split \in {urlsplit(url, default_scheme)} })

\* urlunsplit's "//" + netloc + url, url given a leading '/' if it lacks one.
WithNetloc(scheme, netloc, url) ==
    The({ IF netloc # "" \/ (scheme # "" /\ scheme \in uses_netloc /\ Prefix(u, 2) # "//")
          THEN "//" \o netloc \o (IF u # "" /\ Prefix(u, 1) # "/" THEN "/" \o u ELSE u)
          ELSE u
          : u \in {url} })

\* urlunparse((scheme, netloc, path, params, query, fragment))
urlunparse(scheme, netloc, path, params, query, fragment) ==
    The({ (IF scheme # "" THEN scheme \o ":" ELSE "") \o u \o
          (IF query # "" THEN "?" \o query ELSE "") \o
          (IF fragment # "" THEN "#" \o fragment ELSE "")
          : u \in {WithNetloc(scheme, netloc,
                              IF params # "" THEN path \o ";" \o params ELSE path)} })

\* segments[1:-1] = filter(None, segments[1:-1])
FilterInner(segments) ==
    The({ IF Len(seg) <= 2 THEN seg
          ELSE <<seg[1]>> \o SelectSeq(SubSeq(seg, 2, Len(seg) - 1), LAMBDA g : g # "")
               \o <<seg[Len(seg)]>>
          : seg \in {segments} })

\* The loop of urljoin that resolves the '.' and '..' segments.
RECURSIVE ResolveSegments(_, _)
ResolveSegments(segments, resolved) ==
    The({ IF seg = <<>> THEN res
          ELSE IF Head(seg) = ".."
               THEN ResolveSegments(Tail(seg),
                                    IF res = <<>> THEN res ELSE SubSeq(res, 1, Len(res) - 1))
          ELSE IF Head(seg) = "."
               THEN ResolveSegments(Tail(seg), res)
          ELSE ResolveSegments(Tail(seg), Append(res, Head(seg)))
          : seg \in {segments}, res \in {resolved} })

\* base_parts of urljoin: the segments of the base path, the last one dropped
\* when it is not empty.
BaseParts(path) ==
    The({ IF bp[Len(bp)] # "" THEN SubSeq(bp, 1, Len(bp) - 1) ELSE bp
          : bp \in {Split(path, "/")} })

\* The path urljoin resolves a relative path to, against the base path.
ResolvePath(base_path, path) ==
    The({ The({ The({ IF joined = "" THEN "/" ELSE joined
                      : joined \in {Join(IF seg[Len(seg)] \in {".", ".."}
                                         THEN Append(res, "") ELSE res, "/")} })
                : res \in {ResolveSegments(seg, <<>>)} })
          : seg \in {IF Prefix(path, 1) = "/" THEN Split(path, "/")
                     ELSE FilterInner(BaseParts(base_path) \o Split(path, "/"))} })

\* urljoin of a parsed base b and a parsed reference r (url is the reference
\* as given).
JoinParsed(b, r, url) ==
    IF r.scheme # b.scheme \/ r.scheme \notin uses_relative THEN url
    ELSE IF r.scheme \in uses_netloc /\ r.netloc # ""
    THEN urlunparse(r.scheme, r.netloc, r.path, r.params, r.query, r.fragment)
    ELSE IF r.path = "" /\ r.params = ""
    THEN urlunparse(r.scheme, IF r.scheme \in uses_netloc THEN b.netloc ELSE r.netloc,
                    b.path, b.params, IF r.query = "" THEN b.query ELSE r.query,
                    r.fragment)
    ELSE urlunparse(r.scheme, IF r.scheme \in uses_netloc THEN b.netloc ELSE r.netloc,
                    ResolvePath(b.path, r.path), r.params, r.query, r.fragment)

\* urljoin(base, url)
urljoin(base, url) ==
    IF base = "" THEN Return(url)
    ELSE IF url = "" THEN Return(base)
    ELSE The({ IF b.raised THEN Raise
               ELSE The({ IF r.raised THEN Raise
                          ELSE Return(JoinParsed(b.value, r.value, url))
                          : r \in {urlparse(url, b.value.scheme)} })
               : b \in {urlparse(base, "")} })


(***************************************************************************)
(* tldextract.extract(url), the public-suffix-aware splitter: an external  *)
(* library, modelled by its algorithm over the fixed suffix list           *)
(* PublicSuffixes (the real list is downloaded data).                      *)
(***************************************************************************)

PublicSuffixes == {"com", "org", "io", "uk", "co.uk"}

\* s.partition(sep)[0]
BeforeFirst(s, sep) ==
    The({ The({ IF i = 0 THEN str ELSE SubSeq(str, 1, i - 1) : i \in {Find(str, sep)} })
          : str \in {s} })

\* s.rpartition(sep)[-1]
AfterLast(s, sep) ==
    The({ The({ IF i = 0 THEN str ELSE From(str, i + Len(sep)) : i \in {RFind(str, sep)} })
          : str \in {s} })

RECURSIVE RStripDots(_)
RStripDots(s) ==
    The({ IF Len(str) > 0 /\ CharAt(str, Len(str)) = "."
          THEN RStripDots(SubSeq(str, 1, Len(str) - 1))
          ELSE str
          : str \in {s} })

\* The URL without its "scheme://" (or leading "//").
SchemelessUrl(url) ==
    The({ IF i = 1 THEN From(u, 3)
          ELSE IF i < 3 THEN u
          ELSE IF CharAt(u, i - 1) # ":" THEN u
          ELSE IF \E k \in 1..(i - 2) : CharAt(u, k) \notin scheme_chars THEN u
          ELSE From(u, i + 2)
          : u \in {url}, i \in {Find(url, "//")} })

\* The host tldextract splits: no path, query, fragment, userinfo, port or
\* trailing dot.
LenientHost(url) ==
    RStripDots(BeforeFirst(AfterLast(BeforeFirst(BeforeFirst(BeforeFirst(
        SchemelessUrl(url), "/"), "?"), "#"), "@"), ":"))

LooksLikeIp(labels) ==
    The({ /\ Len(l) = 4
          /\ \A i \in 1..4 : IsDigit(l[i]) /\ Len(l[i]) <= 3 /\ PyInt(l[i]).val <= 255
          : l \in {labels} })

\* The index (1-based) of the first label of the longest public suffix of the
\* host, Len(labels) + 1 when no suffix of it is public.
SuffixIndex(labels) ==
    The({ The({ IF hits = {} THEN Len(l) + 1 ELSE Min(hits)
                : hits \in {{i \in 1..Len(l) :
                               Lower(Join(SubSeq(l, i, Len(l)), ".")) \in PublicSuffixes}} })
          : l \in {labels} })

\* The result of tldextract for a host, its labels and the index of its suffix.
ExtractResult(host, labels, k) ==
    IF k = Len(labels) + 1 /\ LooksLikeIp(labels)
    THEN [subdomain |-> "", domain |-> host, suffix |-> ""]
    ELSE [subdomain |-> IF k >= 3 THEN Join(SubSeq(labels, 1, k - 2), ".") ELSE "",
          domain    |-> IF k >= 2 THEN labels[k - 1] ELSE "",
          suffix    |-> IF k = Len(labels) + 1 THEN ""
                        ELSE Join(SubSeq(labels, k, Len(labels)), ".")]

\* tldextract.extract(url): subdomain, domain, suffix.
tldextract(url) ==
    The({ The({ The({ ExtractResult(host, labels, k) : k \in {SuffixIndex(labels)} })
                : labels \in {Split(host, ".")} })
          : host \in {LenientHost(url)} })

(***************************************************************************)
(* class FBack: the URL decomposer, the formatter and the combinators.     *)
(***************************************************************************)

\* l[-1]
Last(l) == The({ list[Len(list)] : list \in {l} })

\* UrlParts with "File Name" the last segment of the path whether or not it
\* holds a '.'.
UrlParts_file_name_any_segment(url, parsed_url, extracted) ==
    The({ [k \in {"URL", "Full Domain", "Subdomain", "Domain Name", "TLD", "Path",
                  "Full Path", "File Name"} |->
              CASE k = "URL"         -> url
                [] k = "Full Domain" -> parsed_url.netloc
                [] k = "Subdomain"   -> extracted.subdomain
                [] k = "Domain Name" -> extracted.domain
                [] k = "TLD"         -> extracted.suffix
                [] k = "Path"        -> parsed_url.path
                [] k = "Full Path"   -> urlunparse("", "", parsed_url.path, "", "", "")
                [] k = "File Name"   -> last]
          : last \in {Last(Split(parsed_url.path, "/"))} })

\* The dict extract_url_parts builds from the URL, its parse and its
\* tldextract result.
UrlParts(url, parsed_url, extracted) ==
    The({ [k \in {"URL", "Full Domain", "Subdomain", "Domain Name", "TLD", "Path",
                  "Full Path", "File Name"} |->
              CASE k = "URL"         -> url
                [] k = "Full Domain" -> parsed_url.netloc
                [] k = "Subdomain"   -> extracted.subdomain
                [] k = "Domain Name" -> extracted.domain
                [] k = "TLD"         -> extracted.suffix
                [] k = "Path"        -> parsed_url.path
                [] k = "Full Path"   -> urlunparse("", "", parsed_url.path, "", "", "")
                [] k = "File Name"   -> IF Contains(last, ".") THEN last ELSE ""]
          : last \in {Last(Split(parsed_url.path, "/"))} })

\* FBack.extract_url_parts
extract_url_parts(url) ==
    The({ IF parsed_url.raised THEN Raise
          ELSE Return(UrlParts(u, parsed_url.value, extracted))
          : u \in {url}, parsed_url \in {urlparse(url, "")}, extracted \in {tldextract(url)} })

\* format_pattern with the cleanup run twice.
format_pattern_cleanup_twice(url_parts, pattern) ==
    LET p1 == Replace(pattern, "$domain_name", url_parts["Domain Name"])
        p2 == Replace(p1, "$full_domain", url_parts["Full Domain"])
        p3 == Replace(p2, "$subdomain", url_parts["Subdomain"])
        p4 == Replace(p3, "$tld", url_parts["TLD"])
        p5 == Replace(p4, "$file_name", url_parts["File Name"])
        p6 == Replace(p5, "$full_path", url_parts["Full Path"])
        p7 == Replace(p6, "$path", url_parts["Path"])
    IN  Replace(Replace(Replace(Replace(p7, "..", "."), "//", "/"), "..", "."), "//", "/")

\* The body of the loop of format_patterns: one pattern formatted.
format_pattern(url_parts, pattern) ==
    LET p1 == Replace(pattern, "$domain_name", url_parts["Domain Name"])
        p2 == Replace(p1, "$full_domain", url_parts["Full Domain"])
        p3 == Replace(p2, "$subdomain", url_parts["Subdomain"])
        p4 == Replace(p3, "$tld", url_parts["TLD"])
        p5 == Replace(p4, "$file_name", url_parts["File Name"])
        p6 == Replace(p5, "$full_path", url_parts["Full Path"])
        p7 == Replace(p6, "$path", url_parts["Path"])
    IN  Replace(Replace(p7, "..", "."), "//", "/")

\* FBack.format_patterns
format_patterns(url, patterns) ==
    The({ IF url_parts.raised THEN Raise
          ELSE Return([i \in 1..Len(list) |-> format_pattern(url_parts.value, list[i])])
          : url_parts \in {extract_url_parts(url)}, list \in {patterns} })

\* contains_special_chars looking for '$' only.
contains_special_chars_dollar_only(line) == Contains(line, "$")

\* FBack.contains_special_chars
contains_special_chars(line) ==
    The({ Contains(l, "$") \/ Contains(l, "%") : l \in {line} })

\* generate_patterns_combinations taking an empty list as a dimension to leave
\* alone: its loop runs once and substitutes nothing.
generate_patterns_combinations_skip_empty(url, patterns, words, extensions, numbers) ==
    LET OrSelf(list, token) == IF list = <<>> THEN <<token>> ELSE list
        rendered ==
            {Replace(Replace(Replace(patterns[p], "$word", OrSelf(words, "$word")[w]),
                             "$ext", OrSelf(extensions, "$ext")[e]),
                     "$num", OrSelf(numbers, "$num")[n]) :
                p \in 1..Len(patterns), w \in 1..Len(OrSelf(words, "$word")),
                e \in 1..Len(OrSelf(extensions, "$ext")),
                n \in 1..Len(OrSelf(numbers, "$num"))}
    IN  {new_pattern \in rendered : ~ contains_special_chars(new_pattern)}

\* FBack.generate_patterns_combinations: the strings the nested loops add to
\* results.
generate_patterns_combinations(url, patterns, words, extensions, numbers) ==
    LET rendered ==
            {Replace(Replace(Replace(patterns[p], "$word", words[w]),
                             "$ext", extensions[e]), "$num", numbers[n]) :
                p \in 1..Len(patterns), w \in 1..Len(words),
                e \in 1..Len(extensions), n \in 1..Len(numbers)}
    IN  {new_pattern \in rendered : ~ contains_special_chars(new_pattern)}

\* FBack.generate_date_formats_combinations
generate_date_formats_combinations(url, date_formats, words, extensions, numbers, years, months, days) ==
    LET rendered ==
            {Replace(Replace(Replace(Replace(Replace(Replace(date_formats[f],
                "$word", words[w]), "$ext", extensions[e]), "$num", numbers[n]),
                "%y", years[y]), "%m", months[m]), "%d", days[d]) :
                f \in 1..Len(date_formats), w \in 1..Len(words),
                e \in 1..Len(extensions), n \in 1..Len(numbers),
                y \in 1..Len(years), m \in 1..Len(months), d \in 1..Len(days)}
    IN  {new_date_format \in rendered : ~ contains_special_chars(new_date_format)}

\* url = urljoin(url, urlparse(url).path)
nice_url(url) ==
    The({ IF parsed.raised THEN Raise ELSE urljoin(url, parsed.value.path)
          : parsed \in {urlparse(url, "")} })

\* FBack.remove_components_until_path: the set the returned list is made from
\* (list(set(...)) leaves its order open).
remove_components_until_path(urls) ==
    The({ IF \E i \in 1..Len(nice_urls) : nice_urls[i].raised THEN Raise
          ELSE Return({nice_urls[i].value : i \in 1..Len(nice_urls)})
          : nice_urls \in {[i \in 1..Len(urls) |-> nice_url(urls[i])]} })


(***************************************************************************)
(* The range parsers.  A call either returns a list of str or raises       *)
(* ValueError: [raised |-> TRUE] is the exception leaving the function.    *)
(***************************************************************************)

\* start, end = map(int, s.split('-')): ValueError unless there are exactly two
\* parts and int() accepts both.
UnpackInts(s) ==
    LET parts == Split(s, "-")
    IN  IF Len(parts) = 2 /\ PyInt(parts[1]).ok /\ PyInt(parts[2]).ok
        THEN [ok |-> TRUE, start |-> PyInt(parts[1]).val, end |-> PyInt(parts[2]).val]
        ELSE [ok |-> FALSE, start |-> 0, end |-> 0]

\* StrRange with range(start, end): the upper end left out.
StrRange_exclusive(start, end) ==
    LET r == PyRange(start, end) IN [i \in 1..Len(r) |-> PyStr(r[i])]

\* [str(i) for i in range(start, end + 1)]
StrRange(start, end) ==
    LET r == PyRange(start, end + 1) IN [i \in 1..Len(r) |-> PyStr(r[i])]

\* [f"{i:02d}" for i in range(start, end + 1)]
Fmt02dRange(start, end) ==
    LET r == PyRange(start, end + 1) IN [i \in 1..Len(r) |-> Fmt02d(r[i])]

\* FBack.create_year_range
create_year_range(year_range) ==
    IF Contains(year_range, "-")
    THEN LET u == UnpackInts(year_range)
         IN  IF ~ u.ok THEN Raise
             ELSE IF Len(PyStr(u.start)) = 4 /\ Len(PyStr(u.end)) = 4
                  THEN Return(StrRange(u.start, u.end))
                  ELSE Raise
    ELSE IF Contains(year_range, ",")
    THEN LET years == Split(year_range, ",")
         IN  IF \E i \in 1..Len(years) : Len(years[i]) # 4
             THEN Raise
             ELSE Return(years)
    ELSE IF IsDigit(year_range) /\ Len(year_range) = 4
    THEN Return(<<year_range>>)
    ELSE Raise

\* FBack.create_month_range
create_month_range(month_range) ==
    IF Contains(month_range, "-")
    THEN LET u == UnpackInts(month_range)
         IN  IF ~ u.ok THEN Raise
             ELSE IF 1 <= u.start /\ u.start <= 12 /\ 1 <= u.end /\ u.end <= 12
                  THEN Return(Fmt02dRange(u.start, u.end))
                  ELSE Raise
    ELSE IF Contains(month_range, ",")
    THEN LET months == Split(month_range, ",")
         IN  IF \E i \in 1..Len(months) :
                    \/ ~ PyInt(months[i]).ok
                    \/ ~ (1 <= PyInt(months[i]).val /\ PyInt(months[i]).val <= 12)
             THEN Raise
             ELSE Return([i \in 1..Len(months) |-> Fmt02d(PyInt(months[i]).val)])
    ELSE IF IsDigit(month_range) /\ 1 <= PyInt(month_range).val /\ PyInt(month_range).val <= 12
    THEN Return(<<Fmt02d(PyInt(month_range).val)>>)
    ELSE Raise

\* FBack.create_day_range
create_day_range(day_range) ==
    IF Contains(day_range, "-")
    THEN LET u == UnpackInts(day_range)
         IN  IF ~ u.ok THEN Raise
             ELSE IF 1 <= u.start /\ u.start <= 31 /\ 1 <= u.end /\ u.end <= 31
                  THEN Return(Fmt02dRange(u.start, u.end))
                  ELSE Raise
    ELSE IF Contains(day_range, ",")
    THEN LET days == Split(day_range, ",")
         IN  IF \E i \in 1..Len(days) :
                    \/ ~ PyInt(days[i]).ok
                    \/ ~ (1 <= PyInt(days[i]).val /\ PyInt(days[i]).val <= 31)
             THEN Raise
             ELSE Return([i \in 1..Len(days) |-> Fmt02d(PyInt(days[i]).val)])
    ELSE IF IsDigit(day_range) /\ 1 <= PyInt(day_range).val /\ PyInt(day_range).val <= 31
    THEN Return(<<Fmt02d(PyInt(day_range).val)>>)
    ELSE Raise

\* main(): "Process number range", the parse of args.number_range.
process_number_range(number_range) ==
    IF Contains(number_range, "-")
    THEN LET u == UnpackInts(number_range)
         IN  IF ~ u.ok THEN Raise ELSE Return(StrRange(u.start, u.end))
    ELSE Return(Split(number_range, ","))

\* str(e) of the ValueError int(s) raises (s without a quote or a backslash).
int_error(s) == "invalid literal for int() with base 10: '" \o s \o "'"

\* str(e) of the ValueError of start, end = map(int, s.split('-')): the
\* unpacking takes the items of map() one by one, a third one to see that there
\* are too many, and int() raises on the first of them it rejects.
unpack_ints_error(s) ==
    LET parts == Split(s, "-")
        rejected == {i \in 1..Min({Len(parts), 3}) : ~ PyInt(parts[i]).ok}
    IN  IF rejected # {} THEN int_error(parts[Min(rejected)])
        ELSE IF Len(parts) > 2 THEN "too many values to unpack (expected 2)"
        ELSE "not enough values to unpack (expected 2, got 1)"

\* str(e) of the ValueError create_year_range raises on a string it rejects.
create_year_range_error(year_range) ==
    IF Contains(year_range, "-") /\ ~ UnpackInts(year_range).ok
    THEN unpack_ints_error(year_range)
    ELSE "Invalid input format. Use 'YYYY-YYYY' or 'YYYY,YYYY'."

\* str(e) of the ValueError create_month_range and create_day_range raise on a
\* string they reject: that of the unpacking in the hyphen branch; in a comma
\* list, that of int() when the first item that is no integer within
\* 1..last is one int() rejects; else the message of the parser.
bounded_range_error(range, last, message) ==
    IF Contains(range, "-")
    THEN (IF UnpackInts(range).ok THEN message ELSE unpack_ints_error(range))
    ELSE IF Contains(range, ",")
    THEN LET items == Split(range, ",")
             failing == {i \in 1..Len(items) :
                            \/ ~ PyInt(items[i]).ok
                            \/ ~ (1 <= PyInt(items[i]).val /\ PyInt(items[i]).val <= last)}
         IN  IF failing # {} /\ ~ PyInt(items[Min(failing)]).ok
             THEN int_error(items[Min(failing)])
             ELSE message
    ELSE message

create_month_range_error(month_range) ==
    bounded_range_error(month_range, 12, "Invalid input format. Use 'mm-mm' or 'mm,mm'.")

create_day_range_error(day_range) ==
    bounded_range_error(day_range, 31, "Invalid input format. Use 'dd-dd' or 'dd,dd'.")

(***************************************************************************)
(* State.                                                                  *)
(*                                                                         *)
(* A run of main(): args is what the run is given (the parsed command      *)
(* line, whether stdin is a terminal and its lines, and the pattern file,  *)
(* the extensions file and the word list as they are on disk); pc is the   *)
(* position in main(); the others are main()'s                             *)
(* local variables of the same name, plus the index of the running loop    *)
(* over url_list (url_index), the exception in flight (exc), what each     *)
(* print() sent to standard output, in order (stdout), what was written    *)
(* to the output file (outfile), what was printed to standard error        *)
(* (stderr) and the exit status.                                           *)
(*                                                                         *)
(* call and ret are the frame of one call of a function of the program     *)
(* made on its own: the function and its arguments, and what it returned   *)
(* or raised so far (<<>> until it has returned).                          *)
(***************************************************************************)
VARIABLES args, pc, url_list, pattern_data, words, extensions, number_range,
          year_range, month_range, day_range, final, url_index, unique_output,
          output, stdout, outfile, stderr, exc, exit_status, call, ret

\* What "Load pattern file", "Load extensions file", "Load wordlist" and
\* "Process extensions based on levels" assign.
loaded == <<pattern_data, words, extensions>>

runVars == <<args, pc, url_list, loaded, number_range, year_range, month_range,
             day_range, final, url_index, unique_output, output, stdout, outfile,
             stderr, exc, exit_status>>

vars == <<runVars, call, ret>>

\* None, and a list, as the value of a variable that holds either.
PyNone == [isNone |-> TRUE, list |-> <<>>]

PyList(l) == [isNone |-> FALSE, list |-> l]

\* output before it is assigned, as text, and as the JSON text of an object (the
\* object itself: each key with the items of its list, whose order
\* list(set) leaves open).
NoOutput == [format |-> "none", text |-> "", object |-> <<>>]

\* The exception in flight: its class and str(e); none.
Exception(class, message) == [class |-> class, message |-> message]

NoException == Exception("", "")

\* str(e) of the ValueError urlsplit raises on a network location with an
\* unmatched bracket.
InvalidIPv6URL == "Invalid IPv6 URL"

\* What print(BANNER) and print("Error: ...") send to standard output, and
\* print(..., file=sys.stderr) to standard error.
Banner == [format |-> "banner", text |-> "", object |-> <<>>]

ErrorLine(message) == [format |-> "error", text |-> message, object |-> <<>>]

TextOutput(t) == [format |-> "text", text |-> t, object |-> <<>>]

JsonOutput(obj) == [format |-> "json", text |-> "", object |-> obj]

\* A file of the run, by its path: one that opens and parses, with what it
\* holds; one that does not exist; one that holds no valid JSON (the text "not
\* json"); an output file
\* that can be opened for writing, and one that cannot (its directory does not
\* exist); and an option not given.
FileOk(path, content) == [state |-> "ok", path |-> path, content |-> content]

FileMissing(path) == [state |-> "missing", path |-> path, content |-> <<>>]

FileInvalid(path) == [state |-> "invalid", path |-> path, content |-> <<>>]

\* str(e) of the JSONDecodeError json.load raises on the file that holds no
\* valid JSON.
JSONDecodeErrorMessage == "Expecting value: line 1 column 1 (char 0)"

FileWritable(path) == [state |-> "writable", path |-> path, content |-> <<>>]

FileUnwritable(path) == [state |-> "unwritable", path |-> path, content |-> <<>>]

FileNotGiven == [state |-> "none", path |-> "", content |-> <<>>]

NoArgs ==
    [stdin_isatty |-> FALSE, input_urls |-> <<>>, pattern_file |-> FileNotGiven,
     extensions_file |-> FileNotGiven, wordlist |-> FileNotGiven,
     output_file |-> FileNotGiven, silent |-> FALSE, levels |-> "",
     backup_levels |-> "", compress_levels |-> "",
     number_range |-> "", date_method |-> FALSE, date_default |-> FALSE,
     date_custom |-> "", year_range |-> "", month_range |-> "", day_range |-> "",
     json_output |-> FALSE, wordlist_only |-> FALSE]

\* The locals of main() before main() has assigned them.
LocalsUnset ==
    /\ url_list = <<>>
    /\ pattern_data = <<>> /\ words = <<>> /\ extensions = <<>>
    /\ number_range = <<>>
    /\ year_range = PyNone /\ month_range = PyNone /\ day_range = PyNone
    /\ final = <<>>
    /\ url_index = 0
    /\ unique_output = {}
    /\ output = NoOutput
    /\ stdout = <<>> /\ outfile = <<>> /\ stderr = <<>>
    /\ exc = NoException
    /\ exit_status = -1

\* No run of main(): a function is being called on its own.
NoRun == args = NoArgs /\ pc = "idle" /\ LocalsUnset

NoCall == [fn |-> "none"]

(***************************************************************************)
(* The range parsers called on their own, on every string of the three     *)
(* grammars built from RangeTokens: one token, or up to MaxParts tokens    *)
(* separated by '-' or ','.                                                *)
(***************************************************************************)

MaxParts == 2

RangeTokens ==
    {"", "0", "3", "03", "12", "13", "31", "32", "999", "2019", "2020", "02021",
     "abcd", " 7"}

RECURSIVE RangeInputs(_)
RangeInputs(n) ==
    IF n <= 1 THEN RangeTokens
    ELSE RangeInputs(n - 1) \cup
         {p \o sep \o t : p \in RangeInputs(n - 1), sep \in {"-", ","}, t \in RangeTokens}

RangeParsers ==
    {"create_year_range", "create_month_range", "create_day_range", "process_number_range"}

InitRange ==
    /\ call \in {[fn |-> f, arg |-> s] : f \in RangeParsers, s \in RangeInputs(MaxParts)}
    /\ ret = <<>>
    /\ NoRun

CallYearRange ==
    /\ call.fn = "create_year_range" /\ ret = <<>>
    /\ ret' = <<create_year_range(call.arg)>>
    /\ UNCHANGED <<call, runVars>>

CallMonthRange ==
    /\ call.fn = "create_month_range" /\ ret = <<>>
    /\ ret' = <<create_month_range(call.arg)>>
    /\ UNCHANGED <<call, runVars>>

CallDayRange ==
    /\ call.fn = "create_day_range" /\ ret = <<>>
    /\ ret' = <<create_day_range(call.arg)>>
    /\ UNCHANGED <<call, runVars>>

CallNumberRange ==
    /\ call.fn = "process_number_range" /\ ret = <<>>
    /\ ret' = <<process_number_range(call.arg)>>
    /\ UNCHANGED <<call, runVars>>

NextRange == CallYearRange \/ CallMonthRange \/ CallDayRange \/ CallNumberRange

SpecRange == InitRange /\ [][NextRange]_vars

(***************************************************************************)
(* format_patterns called on its own, then the combinator on what it       *)
(* returned, as the loop of main does for one URL.                         *)
(***************************************************************************)

MaxPatterns == 2

MaxRun == 4

RECURSIVE Repeat(_, _)
Repeat(c, k) == IF k <= 0 THEN "" ELSE c \o Repeat(c, k - 1)

\* A template that holds a run of k separators c.
SepRun(c, k) == "a" \o Repeat(c, k) \o "b"

FormatUrls ==
    {"http://example.com/app/config.php", "http://example.com/app/page",
     "http://example.com/a/", "http://blog.example.co.uk/x/y.z", "http://[example.com/",
     "http://example.com/v1.2/page", "http://example.com/page?f=a.b",
     "http://example.com/app/x.php;v=1"}

FormatTemplates ==
    {"$subdomain.$ext", "$path/$word.$ext", "$path//$word", "$file_name.$ext",
     ".$domain_name.$ext"}
    \cup {SepRun(c, k) : c \in {".", "/"}, k \in 1..MaxRun}

\* The lists of 1..n different strings of S, each in ascending order.
ListsUpTo(S, n) == {Sorted(T) : T \in {U \in SUBSET S : Cardinality(U) \in 1..n}}

InitFormat ==
    /\ call \in {[fn |-> "format_patterns", url |-> u, patterns |-> ps,
                  words |-> <<"site">>, extensions |-> es, numbers |-> <<"1">>] :
                    u \in FormatUrls, ps \in ListsUpTo(FormatTemplates, MaxPatterns),
                    es \in {<<"bak">>, <<"zip", "bak">>}}
    /\ ret = <<>>
    /\ NoRun

\* formatted_patterns = fback.format_patterns(url, ...)
CallFormatPatterns ==
    /\ call.fn = "format_patterns" /\ ret = <<>>
    /\ ret' = <<format_patterns(call.url, call.patterns)>>
    /\ UNCHANGED <<call, runVars>>

\* fback.generate_patterns_combinations(url, formatted_patterns, ...)
CallGenerateOnFormatted ==
    /\ call.fn = "format_patterns" /\ Len(ret) = 1 /\ ~ ret[1].raised
    /\ ret' = Append(ret, generate_patterns_combinations(
                              call.url, ret[1].value, call.words, call.extensions,
                              call.numbers))
    /\ UNCHANGED <<call, runVars>>

NextFormat == CallFormatPatterns \/ CallGenerateOnFormatted

SpecFormat == InitFormat /\ [][NextFormat]_vars

(***************************************************************************)
(* The combinators called on their own.  The first combinator is called a  *)
(* second time with the list of one dimension (call.dim) replaced by       *)
(* call.alt, the other arguments kept.                                     *)
(***************************************************************************)

CombTemplates ==
    {"$word.$ext", "backup.$ext", "$word$num", "$word", "$unknown.$ext", "%y.$ext",
     "x$num.$ext"}

WordLists == {<<"site">>, <<"web", "site">>, <<"x$ext">>}

ExtLists == {<<"bak">>, <<"zip", "bak">>, <<"z$num">>}

NumLists == {<<"1">>, <<"1", "2">>}

AltLists(dim) ==
    {<<>>} \cup (CASE dim = "word" -> WordLists
                   [] dim = "ext"  -> ExtLists
                   [] dim = "num"  -> NumLists)

DimAlts == UNION {{<<dim, alt>> : alt \in AltLists(dim)} : dim \in {"word", "ext", "num"}}

InitComb ==
    /\ call \in
        {[fn |-> "generate_patterns_combinations", patterns |-> ps, words |-> ws,
          extensions |-> es, numbers |-> ns, years |-> <<>>, months |-> <<>>,
          days |-> <<>>, dim |-> d[1], alt |-> d[2]] :
            ps \in ListsUpTo(CombTemplates, MaxPatterns), ws \in WordLists,
            es \in ExtLists, ns \in NumLists,
            d \in DimAlts}
        \cup
        {[fn |-> "generate_date_formats_combinations", patterns |-> ps, words |-> ws,
          extensions |-> es, numbers |-> ns, years |-> ys, months |-> <<"02">>,
          days |-> <<"01", "02">>, dim |-> "none", alt |-> <<>>] :
            ps \in ListsUpTo(CombTemplates \cup {"%y-%m-%d.$ext", "%x.$ext"},
                             MaxPatterns),
            ws \in WordLists, es \in ExtLists, ns \in NumLists,
            ys \in {<<"2020">>, <<"2020", "2021">>, <<>>}}
    /\ ret = <<>>
    /\ NoRun

CallGeneratePatterns ==
    /\ call.fn = "generate_patterns_combinations" /\ ret = <<>>
    /\ ret' = <<generate_patterns_combinations(
                    "", call.patterns, call.words, call.extensions, call.numbers)>>
    /\ UNCHANGED <<call, runVars>>

\* The same call with the list of dimension call.dim replaced by call.alt.
CallGeneratePatternsAlt ==
    /\ call.fn = "generate_patterns_combinations" /\ Len(ret) = 1
    /\ ret' = Append(ret, generate_patterns_combinations(
                    "", call.patterns,
                    IF call.dim = "word" THEN call.alt ELSE call.words,
                    IF call.dim = "ext" THEN call.alt ELSE call.extensions,
                    IF call.dim = "num" THEN call.alt ELSE call.numbers))
    /\ UNCHANGED <<call, runVars>>

CallGenerateDateFormats ==
    /\ call.fn = "generate_date_formats_combinations" /\ ret = <<>>
    /\ ret' = <<generate_date_formats_combinations(
                    "", call.patterns, call.words, call.extensions, call.numbers,
                    call.years, call.months, call.days)>>
    /\ UNCHANGED <<call, runVars>>

NextComb == CallGeneratePatterns \/ CallGeneratePatternsAlt \/ CallGenerateDateFormats

SpecComb == InitComb /\ [][NextComb]_vars

(***************************************************************************)
(* A run of main(), from the reading of stdin to the exit.  The loading of *)
(* the pattern file, the word list and the extension levels is taken as    *)
(* done: args holds what they gave.                                        *)
(***************************************************************************)

MaxUrls == 2

UrlPool ==
    {"http://example.com/app/page", "http://example.com/config.php?x=1",
     "http://blog.example.co.uk/", "http://[example.com/"}

\* The lines of stdin, stripped: up to MaxUrls different URLs of the pool (in
\* one order, url_list being made from their set), or one URL twice.
InputLists ==
    {<<>>} \cup ListsUpTo(UrlPool, MaxUrls)
    \cup {<<"http://example.com/app/page", "http://example.com/app/page">>}

PatternData ==
    ("patterns" :> <<"$domain_name.$ext", "/backup.$ext", "$path/$word.$ext",
                     "$file_name~", "$file_name$num">>)
    @@ ("date-formats" :> <<"$domain_name.%y-%m-%d.$ext">>)

\* A pattern file whose templates generate strings that urljoin rejects: "//["
\* opens a network location with an unmatched '['.
PatternDataBracket == "patterns" :> <<"/backup.$ext", "$path//[$word">>

\* Custom date formats of which one generates such a string.
DateCustomBracket == "$word.%y,$path//[%y"

\* Year, month and day ranges: all valid, or one of them invalid.
ValidDateRanges == <<"2020", "2,3", "1">>

InvalidDateRanges ==
    {<<"20", "2,3", "1">>, <<"2020", "13", "1">>, <<"2020", "2", "32">>}

\* The date options of the command line: date mode off, with valid or invalid
\* ranges; date mode on with valid ranges and each choice of date formats; date
\* mode on with an invalid range.
DateArgs ==
    {[date_method |-> FALSE, date_default |-> FALSE, date_custom |-> "", ranges |-> dr] :
        dr \in {ValidDateRanges, <<"20", "13", "32">>}}
    \cup
    {[date_method |-> TRUE, date_default |-> dd, date_custom |-> dc,
      ranges |-> ValidDateRanges] :
        dd \in BOOLEAN, dc \in {"", "%y.$ext,/$word-%m%d"}}
    \cup
    {[date_method |-> TRUE, date_default |-> FALSE, date_custom |-> DateCustomBracket,
      ranges |-> ValidDateRanges]}
    \cup
    {[date_method |-> TRUE, date_default |-> TRUE, date_custom |-> "", ranges |-> dr] :
        dr \in InvalidDateRanges}

\* The extensions file: extensions by kind and by level.
ExtensionsData ==
    ("backup" :> (("level1" :> <<"zip">>) @@ ("level2" :> <<"bak">>)))
    @@ ("compress" :> ("level1" :> <<"gz">>))

\* The options -l, -bl and -cl ("" for an option not given, None in the code):
\* the backup levels alone, the compress levels alone, and the levels of both.
LevelArgs ==
    {[levels |-> "1,2", backup_levels |-> "1", compress_levels |-> ""],
     [levels |-> "1,2", backup_levels |-> "2,1", compress_levels |-> "1"],
     [levels |-> "1,2", backup_levels |-> "", compress_levels |-> "1,3"],
     [levels |-> "1,2", backup_levels |-> "", compress_levels |-> ""],
     [levels |-> "3", backup_levels |-> "", compress_levels |-> ""]}

\* The runs in silent mode with no output file whose files all load, with the
\* backup extensions of level 1: every choice of input, ranges and flags with
\* PatternData, and with PatternDataBracket the runs with a valid number range
\* and date mode off.
LoadedRunArgs ==
    {[stdin_isatty |-> FALSE, input_urls |-> us,
      pattern_file |-> FileOk("patterns.json", PatternData),
      extensions_file |-> FileOk("extensions.json", ExtensionsData),
      wordlist |-> FileOk("words.txt", <<"site">>),
      output_file |-> FileNotGiven, silent |-> TRUE,
      levels |-> "1,2", backup_levels |-> "1", compress_levels |-> "",
      number_range |-> nr, date_method |-> da.date_method,
      date_default |-> da.date_default, date_custom |-> da.date_custom,
      year_range |-> da.ranges[1], month_range |-> da.ranges[2],
      day_range |-> da.ranges[3], json_output |-> jo, wordlist_only |-> wo] :
        us \in InputLists, nr \in {"1-2", "1-x"},
        da \in DateArgs, jo \in BOOLEAN, wo \in BOOLEAN}
    \cup
    {[stdin_isatty |-> FALSE, input_urls |-> us,
      pattern_file |-> FileOk("patterns.json", PatternDataBracket),
      extensions_file |-> FileOk("extensions.json", ExtensionsData),
      wordlist |-> FileOk("words.txt", <<"site">>),
      output_file |-> FileNotGiven, silent |-> TRUE,
      levels |-> "1,2", backup_levels |-> "1", compress_levels |-> "",
      number_range |-> "1-2", date_method |-> FALSE,
      date_default |-> FALSE, date_custom |-> "",
      year_range |-> ValidDateRanges[1], month_range |-> ValidDateRanges[2],
      day_range |-> ValidDateRanges[3], json_output |-> jo, wordlist_only |-> wo] :
        us \in InputLists, jo \in BOOLEAN, wo \in BOOLEAN}

\* The runs over one URL in wordlist-only mode with stdin a terminal or not,
\* silent or not, each file present, missing or (the two JSON files) invalid, a
\* word list whose line has blanks around the word, and each choice of levels.
LoadingRunArgs ==
    {[stdin_isatty |-> tty, input_urls |-> <<"http://example.com/app/page">>,
      pattern_file |-> pf, extensions_file |-> ef, wordlist |-> wl,
      output_file |-> FileNotGiven, silent |-> si,
      levels |-> lv.levels, backup_levels |-> lv.backup_levels,
      compress_levels |-> lv.compress_levels,
      number_range |-> "1-2", date_method |-> FALSE,
      date_default |-> FALSE, date_custom |-> "",
      year_range |-> ValidDateRanges[1], month_range |-> ValidDateRanges[2],
      day_range |-> ValidDateRanges[3], json_output |-> FALSE,
      wordlist_only |-> TRUE] :
        tty \in BOOLEAN, si \in BOOLEAN,
        pf \in {FileOk("patterns.json", PatternData), FileMissing("patterns.json"),
                FileInvalid("patterns.json")},
        ef \in {FileOk("extensions.json", ExtensionsData),
                FileMissing("extensions.json"), FileInvalid("extensions.json")},
        wl \in {FileOk("words.txt", <<" site ">>), FileMissing("words.txt"),
                FileNotGiven},
        lv \in LevelArgs}

\* The runs over one URL whose files all load, silent or not, with no output
\* file, with one that can be written and with one that cannot, a valid or an
\* invalid number range, as plain text or as JSON.
OutputRunArgs ==
    {[stdin_isatty |-> FALSE, input_urls |-> <<"http://example.com/app/page">>,
      pattern_file |-> FileOk("patterns.json", PatternData),
      extensions_file |-> FileOk("extensions.json", ExtensionsData),
      wordlist |-> FileOk("words.txt", <<"site">>),
      output_file |-> of, silent |-> si,
      levels |-> "1,2", backup_levels |-> "1", compress_levels |-> "",
      number_range |-> nr, date_method |-> FALSE,
      date_default |-> FALSE, date_custom |-> "",
      year_range |-> ValidDateRanges[1], month_range |-> ValidDateRanges[2],
      day_range |-> ValidDateRanges[3], json_output |-> jo,
      wordlist_only |-> FALSE] :
        of \in {FileNotGiven, FileWritable("out.txt"),
                FileUnwritable("no_such_dir/out.txt")},
        si \in BOOLEAN, nr \in {"1-2", "1-x"}, jo \in BOOLEAN}

RunArgs == LoadedRunArgs \cup LoadingRunArgs \cup OutputRunArgs

\* d.get(k, default)
DictGet(d, k, default) == IF k \in DOMAIN d THEN d[k] ELSE default

\* list(S): the lists that hold each element of S once, in any order.
ListsOfSet(S) ==
    {l \in [1..Cardinality(S) -> S] : \A a, b \in 1..Cardinality(S) : l[a] = l[b] => a = b}

Init ==
    /\ args \in RunArgs
    /\ pc = "start"
    /\ LocalsUnset
    /\ call = NoCall /\ ret = <<>>

\* fback = FBack(); if not args.output_file and not args.silent: print(BANNER)
Start ==
    /\ pc = "start"
    /\ stdout' = IF args.output_file.state = "none" /\ ~ args.silent
                 THEN Append(stdout, Banner) ELSE stdout
    /\ pc' = "read_input"
    /\ UNCHANGED <<args, url_list, loaded, number_range, year_range, month_range,
                   day_range, final, url_index, unique_output, output, outfile,
                   exc, exit_status, stderr, call, ret>>

\* if not sys.stdin.isatty(): input_urls = ...;
\* url_list = fback.remove_components_until_path(input_urls);
\* else: print the error, sys.exit(1).  SystemExit is no Exception: the except
\* clause of main() does not catch it, and the process exits with status 1.
ReadInput ==
    /\ pc = "read_input"
    /\ LET r == remove_components_until_path(args.input_urls)
       IN  IF args.stdin_isatty
           THEN /\ stdout' = Append(stdout, ErrorLine("Error: No input provided via stdin"))
                /\ pc' = "exited" /\ exit_status' = 1
                /\ UNCHANGED <<url_list, exc>>
           ELSE IF r.raised
           THEN /\ exc' = Exception("ValueError", InvalidIPv6URL) /\ pc' = "except"
                /\ UNCHANGED <<url_list, stdout, exit_status>>
           ELSE /\ url_list' \in ListsOfSet(r.value) /\ pc' = "load_files"
                /\ UNCHANGED <<stdout, exc, exit_status>>
    /\ UNCHANGED <<args, loaded, number_range, year_range, month_range, day_range,
                   final, url_index, unique_output, output, outfile, stderr, call, ret>>

\* extensions.extend(extensions_data[kind]["level" + level]) for each level of
\* the list, in order, and for each kind of kinds, in order, when
\* extensions_data.get(kind, {}) has that level.
RECURSIVE extend_by_levels(_, _, _)
extend_by_levels(extensions_data, kinds, levels) ==
    IF levels = <<>> THEN <<>>
    ELSE LET key == "level" \o Head(levels)
             of_kind(kind) == IF key \in DOMAIN DictGet(extensions_data, kind, <<>>)
                              THEN extensions_data[kind][key] ELSE <<>>
             RECURSIVE of_kinds(_)
             of_kinds(ks) == IF ks = <<>> THEN <<>>
                             ELSE of_kind(Head(ks)) \o of_kinds(Tail(ks))
         IN  of_kinds(kinds) \o extend_by_levels(extensions_data, kinds, Tail(levels))

\* "Process extensions based on levels"
process_extensions(a, extensions_data) ==
    IF a.backup_levels # ""
    THEN extend_by_levels(extensions_data, <<"backup">>, Split(a.backup_levels, ","))
    ELSE IF a.compress_levels # ""
    THEN extend_by_levels(extensions_data, <<"compress">>, Split(a.compress_levels, ","))
    ELSE extend_by_levels(extensions_data, <<"backup", "compress">>, Split(a.levels, ","))

\* "Load pattern file", "Load extensions file", "Load wordlist" and "Process
\* extensions based on levels": a file that does not exist, or a word list not
\* given, prints an error and calls sys.exit(1); a file that holds no valid
\* JSON makes json.load raise JSONDecodeError, which the except clause catches.
LoadFiles ==
    /\ pc = "load_files"
    /\ IF args.pattern_file.state = "missing"
       THEN /\ stdout' = Append(stdout, ErrorLine(
                   "Error: Pattern file " \o args.pattern_file.path \o " not found"))
            /\ pc' = "exited" /\ exit_status' = 1
            /\ UNCHANGED <<loaded, exc>>
       ELSE IF args.pattern_file.state = "invalid"
       THEN /\ exc' = Exception("JSONDecodeError", JSONDecodeErrorMessage) /\ pc' = "except"
            /\ UNCHANGED <<loaded, stdout, exit_status>>
       ELSE /\ pattern_data' = args.pattern_file.content
            /\ IF args.extensions_file.state = "missing"
               THEN /\ stdout' = Append(stdout, ErrorLine(
                           "Error: Extensions file " \o args.extensions_file.path
                           \o " not found"))
                    /\ pc' = "exited" /\ exit_status' = 1
                    /\ UNCHANGED <<words, extensions, exc>>
               ELSE IF args.extensions_file.state = "invalid"
               THEN /\ exc' = Exception("JSONDecodeError", JSONDecodeErrorMessage) /\ pc' = "except"
                    /\ UNCHANGED <<words, extensions, stdout, exit_status>>
               ELSE IF args.wordlist.state = "none"
               THEN /\ stdout' = Append(stdout, ErrorLine(
                           "Error: Wordlist file not provided"))
                    /\ pc' = "exited" /\ exit_status' = 1
                    /\ UNCHANGED <<words, extensions, exc>>
               ELSE IF args.wordlist.state = "missing"
               THEN /\ stdout' = Append(stdout, ErrorLine(
                           "Error: Wordlist file " \o args.wordlist.path
                           \o " not found"))
                    /\ pc' = "exited" /\ exit_status' = 1
                    /\ UNCHANGED <<words, extensions, exc>>
               ELSE /\ words' = [i \in 1..Len(args.wordlist.content) |->
                                    Strip(args.wordlist.content[i])]
                    /\ extensions' = process_extensions(
                                         args, args.extensions_file.content)
                    /\ pc' = "number_range"
                    /\ UNCHANGED <<stdout, exc, exit_status>>
    /\ UNCHANGED <<args, url_list, number_range, year_range, month_range, day_range,
                   final, url_index, unique_output, output, outfile, stderr, call, ret>>

\* "Process number range"
ProcessNumberRange ==
    /\ pc = "number_range"
    /\ LET r == process_number_range(args.number_range)
       IN  IF r.raised
           THEN /\ exc' = Exception("ValueError", unpack_ints_error(args.number_range))
                /\ pc' = "except"
                /\ UNCHANGED number_range
           ELSE /\ number_range' = r.value /\ pc' = "date_ranges"
                /\ UNCHANGED exc
    /\ UNCHANGED <<args, loaded, url_list, year_range, month_range, day_range, final,
                   url_index, unique_output, output, stdout, outfile, exit_status, stderr, call, ret>>

\* "Process date ranges if date method is enabled"
ProcessDateRanges ==
    /\ pc = "date_ranges"
    /\ LET y == create_year_range(args.year_range)
           m == create_month_range(args.month_range)
           d == create_day_range(args.day_range)
       IN  IF ~ args.date_method
           THEN /\ pc' = "generate_patterns"
                /\ UNCHANGED <<year_range, month_range, day_range, exc>>
           ELSE IF y.raised
           THEN /\ exc' = Exception("ValueError", create_year_range_error(args.year_range))
                /\ pc' = "except"
                /\ UNCHANGED <<year_range, month_range, day_range>>
           ELSE IF m.raised
           THEN /\ year_range' = PyList(y.value)
                /\ exc' = Exception("ValueError", create_month_range_error(args.month_range))
                /\ pc' = "except"
                /\ UNCHANGED <<month_range, day_range>>
           ELSE IF d.raised
           THEN /\ year_range' = PyList(y.value) /\ month_range' = PyList(m.value)
                /\ exc' = Exception("ValueError", create_day_range_error(args.day_range))
                /\ pc' = "except"
                /\ UNCHANGED day_range
           ELSE /\ year_range' = PyList(y.value) /\ month_range' = PyList(m.value)
                /\ day_range' = PyList(d.value)
                /\ pc' = "generate_patterns"
                /\ UNCHANGED exc
    /\ UNCHANGED <<args, loaded, url_list, number_range, final, url_index, unique_output,
                   output, stdout, outfile, exit_status, stderr, call, ret>>

\* final = {"patterns": set()}
StartPatterns ==
    /\ pc = "generate_patterns"
    /\ final' = ("patterns" :> {})
    /\ url_index' = 1
    /\ pc' = "patterns_loop"
    /\ UNCHANGED <<args, loaded, url_list, number_range, year_range, month_range, day_range,
                   unique_output, output, stdout, outfile, exc, exit_status, stderr, call, ret>>

\* One turn of "for url in url_list" of "Generate patterns".
GeneratePatternsForUrl ==
    /\ pc = "patterns_loop" /\ url_index <= Len(url_list)
    /\ LET url == url_list[url_index]
           formatted_patterns ==
               format_patterns(url, DictGet(pattern_data, "patterns", <<>>))
       IN  IF formatted_patterns.raised
           THEN /\ exc' = Exception("ValueError", InvalidIPv6URL) /\ pc' = "except"
                /\ UNCHANGED <<final, url_index>>
           ELSE /\ final' = [final EXCEPT !["patterns"] = @ \cup
                        generate_patterns_combinations(url, formatted_patterns.value,
                            words, extensions, number_range)]
                /\ url_index' = url_index + 1
                /\ UNCHANGED <<pc, exc>>
    /\ UNCHANGED <<args, loaded, url_list, number_range, year_range, month_range,
                   day_range, unique_output, output, stdout, outfile, exit_status,
                   stderr, call, ret>>

\* StartDateFormats creating the key only when there are date formats to use.
StartDateFormats_key_when_formats ==
    /\ pc = "patterns_loop" /\ url_index > Len(url_list)
    /\ IF args.date_method
       THEN /\ final' = IF args.date_default \/ args.date_custom # ""
                        THEN final @@ ("date-formats" :> {}) ELSE final
            /\ url_index' = 1
            /\ pc' = "date_formats_loop"
       ELSE /\ pc' = "convert"
            /\ UNCHANGED <<final, url_index>>
    /\ UNCHANGED <<args, loaded, url_list, number_range, year_range, month_range, day_range,
                   unique_output, output, stdout, outfile, exc, exit_status, stderr, call, ret>>

\* if args.date_method: final["date-formats"] = set()
StartDateFormats ==
    /\ pc = "patterns_loop" /\ url_index > Len(url_list)
    /\ IF args.date_method
       THEN /\ final' = ("date-formats" :> {}) @@ final
            /\ url_index' = 1
            /\ pc' = "date_formats_loop"
       ELSE /\ pc' = "convert"
            /\ UNCHANGED <<final, url_index>>
    /\ UNCHANGED <<args, loaded, url_list, number_range, year_range, month_range, day_range,
                   unique_output, output, stdout, outfile, exc, exit_status, stderr, call, ret>>

\* The date formats a turn of the loop of "Generate date formats" uses.
date_formats_of(a, data) ==
    IF a.date_default THEN DictGet(data, "date-formats", <<>>)
    ELSE IF a.date_custom # "" THEN Split(a.date_custom, ",")
    ELSE <<>>

\* One turn of "for url in url_list" of "Generate date formats if enabled".
GenerateDateFormatsForUrl ==
    /\ pc = "date_formats_loop" /\ url_index <= Len(url_list)
    /\ LET url == url_list[url_index]
           formatted_date_formats == format_patterns(url, date_formats_of(args, pattern_data))
       IN  IF formatted_date_formats.raised
           THEN /\ exc' = Exception("ValueError", InvalidIPv6URL) /\ pc' = "except"
                /\ UNCHANGED <<final, url_index>>
           ELSE /\ final' = [final EXCEPT !["date-formats"] = @ \cup
                        generate_date_formats_combinations(url,
                            formatted_date_formats.value,
                            words, extensions, number_range,
                            year_range.list, month_range.list, day_range.list)]
                /\ url_index' = url_index + 1
                /\ UNCHANGED <<pc, exc>>
    /\ UNCHANGED <<args, loaded, url_list, number_range, year_range, month_range,
                   day_range, unique_output, output, stdout, outfile, exit_status,
                   stderr, call, ret>>

\* "Convert sets to lists for output" (the order of each list is left open: the
\* items stay a set here), then unique_output = set().
ConvertSets ==
    /\ \/ pc = "convert"
       \/ pc = "date_formats_loop" /\ url_index > Len(url_list)
    /\ unique_output' = {}
    /\ url_index' = 1
    /\ pc' = "output"
    /\ UNCHANGED <<args, loaded, url_list, number_range, year_range, month_range, day_range,
                   final, output, stdout, outfile, exc, exit_status, stderr, call, ret>>

\* if args.json_output: unique_output = final, then
\* output = json.dumps(unique_output, indent=4)
DumpJson ==
    /\ pc = "output" /\ args.json_output
    /\ unique_output' = final
    /\ output' = JsonOutput(final)
    /\ pc' = "write"
    /\ UNCHANGED <<args, loaded, url_list, number_range, year_range, month_range, day_range,
                   final, url_index, stdout, outfile, exc, exit_status, stderr, call, ret>>

\* output_line keeping the leading slash in wordlist-only mode.
output_line_keep_slash(wordlist_only, url, path) ==
    IF wordlist_only
    THEN Return(path)
    ELSE urljoin(url, path)

\* What one path adds to unique_output for one URL (urljoin can raise).
output_line(wordlist_only, url, path) ==
    IF wordlist_only
    THEN Return(IF StartsWith(path, "/") THEN From(path, 2) ELSE path)
    ELSE urljoin(url, path)

\* One turn of "for url in url_list" of "Generate output" (plain text): the
\* paths of final["patterns"], then in date mode those of final["date-formats"],
\* each list in the order list(set) gave it, which is left open.  When urljoin
\* raises on a path, the lines of the paths that came before it in that order
\* are already in unique_output: those of any set of the non-raising paths of
\* the list that raises, after all those of the list before it.
AddOutputForUrl ==
    /\ pc = "output" /\ ~ args.json_output /\ url_index <= Len(url_list)
    /\ \E patterns \in {final["patterns"]},
          date_formats \in {IF args.date_method /\ "date-formats" \in DOMAIN final
                            THEN final["date-formats"] ELSE {}} :
         \E line \in {[path \in patterns \cup date_formats |->
                          output_line(args.wordlist_only, url_list[url_index], path)]} :
           \E raising \in {{path \in DOMAIN line : line[path].raised}},
              from_patterns \in {{line[path].value :
                                     path \in {p \in patterns : ~ line[p].raised}}},
              from_date_formats \in {{line[path].value :
                                         path \in {p \in date_formats : ~ line[p].raised}}} :
             IF patterns \cap raising # {}
             THEN /\ \E before \in SUBSET from_patterns :
                        unique_output' = unique_output \cup before
                  /\ exc' = Exception("ValueError", InvalidIPv6URL) /\ pc' = "except"
                  /\ UNCHANGED url_index
             ELSE IF date_formats \cap raising # {}
             THEN /\ \E before \in SUBSET from_date_formats :
                        unique_output' = unique_output \cup from_patterns \cup before
                  /\ exc' = Exception("ValueError", InvalidIPv6URL) /\ pc' = "except"
                  /\ UNCHANGED url_index
             ELSE /\ unique_output' = unique_output \cup from_patterns
                                          \cup from_date_formats
                  /\ url_index' = url_index + 1
                  /\ UNCHANGED <<pc, exc>>
    /\ UNCHANGED <<args, loaded, url_list, number_range, year_range, month_range,
                   day_range, final, output, stdout, outfile, exit_status, stderr, call, ret>>

\* output = '\n'.join(sorted(unique_output))
JoinSorted ==
    /\ pc = "output" /\ ~ args.json_output /\ url_index > Len(url_list)
    /\ output' = TextOutput(Join(Sorted(unique_output), "\n"))
    /\ pc' = "write"
    /\ UNCHANGED <<args, loaded, url_list, number_range, year_range, month_range, day_range,
                   final, url_index, unique_output, stdout, outfile, exc, exit_status,
                   stderr, call, ret>>

\* "Write output": outfile.write(output) to the output file, where open()
\* raises FileNotFoundError when the file cannot be opened, or print(output).
WriteOutput ==
    /\ pc = "write"
    /\ IF args.output_file.state = "unwritable"
       THEN /\ exc' = Exception("FileNotFoundError",
                                 "[Errno 2] No such file or directory: '"
                                 \o args.output_file.path \o "'") /\ pc' = "except"
            /\ UNCHANGED <<stdout, outfile, exit_status>>
       ELSE /\ IF args.output_file.state = "writable"
               THEN outfile' = <<output>> /\ UNCHANGED stdout
               ELSE stdout' = Append(stdout, output) /\ UNCHANGED outfile
            /\ exit_status' = 0
            /\ pc' = "done"
            /\ UNCHANGED exc
    /\ UNCHANGED <<args, loaded, url_list, number_range, year_range, month_range,
                   day_range, final, url_index, unique_output, output, stderr, call, ret>>

\* except Exception as e: print(f"Error: {str(e)}", file=sys.stderr);
\* sys.exit(1)
Except ==
    /\ pc = "except"
    /\ stderr' = Append(stderr, ErrorLine("Error: " \o exc.message))
    /\ exit_status' = 1
    /\ pc' = "exited"
    /\ UNCHANGED <<args, loaded, url_list, number_range, year_range, month_range,
                   day_range, final, url_index, unique_output, output, stdout,
                   outfile, exc, call, ret>>

Next ==
    \/ Start
    \/ ReadInput
    \/ LoadFiles
    \/ ProcessNumberRange
    \/ ProcessDateRanges
    \/ StartPatterns
    \/ GeneratePatternsForUrl
    \/ StartDateFormats
    \/ GenerateDateFormatsForUrl
    \/ ConvertSets
    \/ DumpJson
    \/ AddOutputForUrl
    \/ JoinSorted
    \/ WriteOutput
    \/ Except

Spec == Init /\ [][Next]_vars

(***************************************************************************)
(* Properties of the combinators and of the formatter.                     *)
(***************************************************************************)

HasMarker(s) == \E i \in 1..Len(s) : CharAt(s, i) \in {"$", "%"}

\* C1: no string returned by generate_patterns_combinations or by
\* generate_date_formats_combinations holds a '$' or a '%'; a template that keeps
\* an unresolved token ("$unknown.$ext" with extension "bak") adds no string, and
\* the call returns normally.
C1_NoMarkerInResults ==
    (call.fn \in {"generate_patterns_combinations",
                  "generate_date_formats_combinations"} /\ Len(ret) >= 1) =>
        /\ \A s \in ret[1] : ~ HasMarker(s)
        /\ "$unknown.bak" \notin ret[1]
        /\ call.patterns = <<"$unknown.$ext">> => ret[1] = {}

\* "$unknown.$ext" was dropped and "$word.$ext" kept, with extension "bak".
C1_Witness ==
    /\ call.fn = "generate_patterns_combinations"
    /\ call.patterns = <<"$unknown.$ext", "$word.$ext">>
    /\ call.words = <<"site">> /\ call.extensions = <<"bak">>
    /\ Len(ret) >= 1 /\ ret[1] = {"site.bak"}

Placeholder(dim) == "$" \o dim

\* Every template of the call lacks the placeholder of the call's dimension.
LacksPlaceholder ==
    \A i \in 1..Len(call.patterns) : ~ Contains(call.patterns[i], Placeholder(call.dim))

\* The placeholder of the call's dimension is in no template, also not once the
\* substitutions made before it ($word, then $ext, then $num) are applied, for
\* any of the values of the call.
LacksPlaceholderWhenReached ==
    \A i \in 1..Len(call.patterns) :
        CASE call.dim = "word" -> ~ Contains(call.patterns[i], "$word")
          [] call.dim = "ext" ->
                /\ ~ Contains(call.patterns[i], "$ext")
                /\ \A w \in 1..Len(call.words) :
                      ~ Contains(Replace(call.patterns[i], "$word", call.words[w]), "$ext")
          [] call.dim = "num" ->
                /\ ~ Contains(call.patterns[i], "$num")
                /\ \A w \in 1..Len(call.words), e \in 1..Len(call.extensions) :
                      ~ Contains(Replace(Replace(call.patterns[i], "$word", call.words[w]),
                                         "$ext", call.extensions[e]), "$num")

\* C2 (as claimed): when the templates lack the placeholder of a dimension, the
\* returned set is the same for every list given for that dimension, the empty
\* list included.
C2_UnusedDimensionAnyList ==
    (call.fn = "generate_patterns_combinations" /\ Len(ret) = 2 /\ LacksPlaceholder)
        => ret[2] = ret[1]

\* C2 (amended): when the placeholder of a dimension is in no template, also not
\* once the earlier substitutions are applied, the returned set is the same for
\* every non-empty list given for that dimension; with the empty list the
\* returned set is empty.
C2_UnusedDimensionNonEmptyList ==
    (call.fn = "generate_patterns_combinations" /\ Len(ret) = 2
     /\ LacksPlaceholderWhenReached) =>
        /\ call.alt # <<>> => ret[2] = ret[1]
        /\ call.alt = <<>> => ret[2] = {}

\* "backup.$ext" expanded to the same set with the words ["site"] and
\* ["web", "site"].
C2_Witness ==
    /\ call.fn = "generate_patterns_combinations"
    /\ call.patterns = <<"backup.$ext">> /\ call.extensions = <<"bak">>
    /\ call.dim = "word" /\ call.words = <<"site">> /\ call.alt = <<"web", "site">>
    /\ Len(ret) = 2 /\ ret[1] = {"backup.bak"} /\ ret[2] = {"backup.bak"}

\* C3 (as claimed): for a URL with an empty subdomain, format_patterns does not
\* turn "$subdomain.$ext" into a string that begins with '.', and the expansion
\* with extension e does not hold ".e".
C3_NoLeadingDotForEmptySubdomain ==
    (call.fn = "format_patterns" /\ ~ extract_url_parts(call.url).raised
     /\ extract_url_parts(call.url).value["Subdomain"] = ""
     /\ call.patterns = <<"$subdomain.$ext">>) =>
        /\ Len(ret) >= 1 => ~ StartsWith(ret[1].value[1], ".")
        /\ Len(ret) = 2 =>
              \A e \in 1..Len(call.extensions) : ("." \o call.extensions[e]) \notin ret[2]

\* C4: the cleanup of format_patterns is one left-to-right pass replacing ".."
\* by "." and then one replacing "//" by "/": a run of k separators becomes a run
\* of (k + 1) \div 2, so 3 or 4 become 2; with the URL
\* http://example.com/app/config.php, word "site" and extension "bak",
\* "$path/$word.$ext" yields "/app/config.php/site.bak".
C4_SinglePassCleanup ==
    (call.fn = "format_patterns" /\ Len(ret) >= 1 /\ ~ ret[1].raised) =>
        \A i \in 1..Len(call.patterns) :
            /\ \A c \in {".", "/"}, k \in 1..MaxRun :
                  call.patterns[i] = SepRun(c, k)
                      => ret[1].value[i] = SepRun(c, (k + 1) \div 2)
            /\ \A c \in {".", "/"}, k \in {3, 4} :
                  call.patterns[i] = SepRun(c, k) => ret[1].value[i] = SepRun(c, 2)
            /\ (call.url = "http://example.com/a/" /\ call.patterns[i] = "$path//$word")
                  => ret[1].value[i] = "/a//$word"
            /\ (call.url = "http://example.com/app/config.php"
                /\ call.patterns[i] = "$path/$word.$ext")
                  => /\ ret[1].value[i] = "/app/config.php/$word.$ext"
                     /\ Len(ret) = 2 => "/app/config.php/site.bak" \in ret[2]

\* "$path/$word.$ext" was formatted and expanded for the URL of the claim, next
\* to a run of 3 dots collapsed to 2.
C4_Witness ==
    /\ call.fn = "format_patterns" /\ call.url = "http://example.com/app/config.php"
    /\ call.patterns = <<"$path/$word.$ext", "a...b">>
    /\ Len(ret) = 2 /\ ret[1] = Return(<<"/app/config.php/$word.$ext", "a..b">>)
    /\ "/app/config.php/site.bak" \in ret[2]

\* What stands after the last '/' of a path (the whole path when it has none).
FinalSegment(path) ==
    The({ SubSeq(p, RFind(p, "/") + 1, Len(p)) : p \in {path} })

\* URLs of the harness with the file name each has: a dotted last segment, a
\* last segment without a dot, a path ending in '/', a dot only in an earlier
\* segment, a dot only in the query, parameters after the last segment.
FileNameExamples ==
    {<<"http://example.com/app/config.php", "config.php">>,
     <<"http://example.com/app/page", "">>,
     <<"http://example.com/a/", "">>,
     <<"http://blog.example.co.uk/x/y.z", "y.z">>,
     <<"http://example.com/v1.2/page", "">>,
     <<"http://example.com/page?f=a.b", "">>,
     <<"http://example.com/app/x.php;v=1", "x.php">>}

\* C11: for every URL that extract_url_parts decomposes, "File Name" is the
\* final '/'-separated segment of the path component when that segment holds a
\* '.', and the empty string otherwise (a dot only in an earlier segment, or a
\* path ending in '/', gives the empty string); format_patterns puts it in place
\* of "$file_name", and with the URL http://example.com/app/config.php, words
\* ["site"], extensions ["bak"], numbers ["1"] and the template
\* "$file_name.$ext" the result set holds "config.php.bak".
C11_FileNameIsDottedFinalSegment ==
    (call.fn = "format_patterns" /\ Len(ret) >= 1 /\ ~ ret[1].raised) =>
        LET url_parts == extract_url_parts(call.url).value
            segment == FinalSegment(url_parts["Path"])
            file_name == url_parts["File Name"]
        IN  /\ ~ extract_url_parts(call.url).raised
            /\ file_name = (IF "." \in {CharAt(segment, j) : j \in 1..Len(segment)}
                            THEN segment ELSE "")
            /\ \A e \in FileNameExamples : call.url = e[1] => file_name = e[2]
            /\ \A i \in 1..Len(call.patterns) :
                  call.patterns[i] = "$file_name.$ext" =>
                      /\ ret[1].value[i] = file_name \o ".$ext"
                      /\ (Len(ret) = 2 /\ call.url = "http://example.com/app/config.php")
                            => "config.php.bak" \in ret[2]

\* "$file_name.$ext" was formatted and expanded for the URL of the claim with
\* the words ["site"], the extensions ["bak"] and the numbers ["1"].
C11_Witness ==
    /\ call.fn = "format_patterns" /\ call.url = "http://example.com/app/config.php"
    /\ call.patterns = <<"$file_name.$ext">>
    /\ call.words = <<"site">> /\ call.extensions = <<"bak">> /\ call.numbers = <<"1">>
    /\ Len(ret) = 2 /\ ret[1] = Return(<<"config.php.$ext">>)
    /\ ret[2] = {"config.php.bak"}

(***************************************************************************)
(* Properties of the range parsers.                                        *)
(***************************************************************************)

Returned == ret # <<>>

\* The tokens of a range string: what stands between its '-' and ','.
TokensOf(s) ==
    LET parts == Split(s, "-")
    IN  UNION {{Split(parts[i], ",")[j] : j \in 1..Len(Split(parts[i], ","))} :
               i \in 1..Len(parts)}

FourDigits(t) == Len(t) = 4 /\ IsDigit(t)

ListItems(l) == {l[i] : i \in 1..Len(l)}

\* C5 (as claimed): create_year_range either raises ValueError or returns only
\* tokens of exactly 4 decimal digits, and it raises whenever the input holds a
\* token that is not exactly 4 digits ("abcd,2020", "999-2020").
C5_YearTokensAreFourDigits ==
    (call.fn = "create_year_range" /\ Returned) =>
        /\ ret[1].raised \/ \A t \in ListItems(ret[1].value) : FourDigits(t)
        /\ (\E t \in TokensOf(call.arg) : ~ FourDigits(t)) => ret[1].raised

\* The bound of a parser of months or days.
BoundOf(fn) == IF fn = "create_month_range" THEN 12 ELSE 31

TwoDigitsWithin(t, bound) ==
    /\ Len(t) = 2 /\ IsDigit(t)
    /\ 1 <= 10 * DigitVal(CharAt(t, 1)) + DigitVal(CharAt(t, 2))
    /\ 10 * DigitVal(CharAt(t, 1)) + DigitVal(CharAt(t, 2)) <= bound

\* C6: create_month_range (bound 12) and create_day_range (bound 31) either raise
\* ValueError or return only 2-character zero-padded decimal tokens with a value
\* in [1, bound]; an input token whose value is outside the bound raises (month
\* "13", day "32"); day "31" alone returns ["31"].
C6_MonthDayTokensPaddedAndBounded ==
    (call.fn \in {"create_month_range", "create_day_range"} /\ Returned) =>
        /\ ret[1].raised \/
           \A t \in ListItems(ret[1].value) : TwoDigitsWithin(t, BoundOf(call.fn))
        /\ (\E t \in TokensOf(call.arg) :
                PyInt(t).ok /\ ~ (1 <= PyInt(t).val /\ PyInt(t).val <= BoundOf(call.fn)))
           => ret[1].raised
        /\ (call.fn = "create_month_range" /\ call.arg = "13") => ret[1].raised
        /\ (call.fn = "create_day_range" /\ call.arg = "32") => ret[1].raised
        /\ (call.fn = "create_day_range" /\ call.arg = "31")
           => ret[1] = Return(<<"31">>)

\* create_day_range("31") has returned ["31"].
C6_Witness ==
    call = [fn |-> "create_day_range", arg |-> "31"] /\ ret = <<Return(<<"31">>)>>

\* The input is "A-B" with A and B integers.
IsHyphenPair(s) ==
    /\ Len(Split(s, "-")) = 2
    /\ PyInt(Split(s, "-")[1]).ok /\ PyInt(Split(s, "-")[2]).ok

PairA(s) == PyInt(Split(s, "-")[1]).val

PairB(s) == PyInt(Split(s, "-")[2]).val

\* l is the ascending list of the integers a..b in plain decimal (empty when
\* a > b), none zero-padded.
IsPlainAscending(l, a, b) ==
    /\ Len(l) = (IF a > b THEN 0 ELSE b - a + 1)
    /\ \A i \in 1..Len(l) :
          /\ IsDigit(l[i])
          /\ DigitsVal(l[i], 0) = a + i - 1
          /\ Len(l[i]) > 1 => Head(l[i]) # "0"

\* C7: a hyphen range "A-B" yields, without error, the ascending list of the
\* integers A..B, which is empty when A > B, for create_year_range (A and B of 4
\* digits, "2020-2019" giving []) and for the number range of main; the number
\* range checks no bound and no digit count and pads nothing: a list or a single
\* value comes back as written.
C7_HyphenRangeAscendingOrEmpty ==
    /\ (call.fn = "create_year_range" /\ Returned /\ IsHyphenPair(call.arg)
        /\ Len(PyStr(PairA(call.arg))) = 4 /\ Len(PyStr(PairB(call.arg))) = 4)
       => /\ ~ ret[1].raised
          /\ IsPlainAscending(ret[1].value, PairA(call.arg), PairB(call.arg))
    /\ (call.fn = "create_year_range" /\ Returned /\ call.arg = "2020-2019")
       => ret[1] = Return(<<>>)
    /\ (call.fn = "process_number_range" /\ Returned /\ IsHyphenPair(call.arg))
       => /\ ~ ret[1].raised
          /\ IsPlainAscending(ret[1].value, PairA(call.arg), PairB(call.arg))
    /\ (call.fn = "process_number_range" /\ Returned /\ ~ Contains(call.arg, "-"))
       => /\ ~ ret[1].raised
          /\ Join(ret[1].value, ",") = call.arg

\* The number range of main has parsed the reversed "12-3" into the empty list.
C7_Witness ==
    call = [fn |-> "process_number_range", arg |-> "12-3"] /\ ret = <<Return(<<>>)>>

(***************************************************************************)
(* Properties of a run of main().                                          *)
(***************************************************************************)

\* The wordlist or JSON output the run has written, to the output file or to
\* standard output (where the banner and the error lines are not output).
IsOutput(item) == item.format \in {"text", "json"}

written == outfile \o SelectSeq(stdout, IsOutput)

\* The lines of the plain-text output.
OutputLines(o) == IF o.text = "" THEN <<>> ELSE Split(o.text, "\n")

\* The strings a run has aggregated: final["patterns"] and final["date-formats"].
Aggregated == UNION {final[k] : k \in DOMAIN final}

\* scheme://netloc of a URL.
Origin(u) ==
    The({ parsed.value.scheme \o "://" \o parsed.value.netloc : parsed \in {urlparse(u, "")} })

\* A URL up to and including the last '/'.
Directory(u) == SubSeq(u, 1, RFind(u, "/"))

\* emit(u, p): the relative-URL resolution of p against u, or p with one
\* leading slash removed in wordlist-only mode.
emit(wordlist_only, u, p) ==
    IF wordlist_only
    THEN (IF Len(p) > 0 /\ Head(p) = "/" THEN Tail(p) ELSE p)
    ELSE urljoin(u, p).value

\* What C8 says of the lines of the output, of the URL list and of the
\* aggregated strings.
SortedSetOfEmitted(lines, wordlist_only, urls, paths) ==
    /\ \A i \in 1..(Len(lines) - 1) : StrLess(lines[i], lines[i + 1])
    /\ {lines[i] : i \in 1..Len(lines)} =
          {emit(wordlist_only, urls[u], p) : u \in 1..Len(urls), p \in paths}
    /\ \A u \in 1..Len(urls), p \in paths :
          /\ (StartsWith(p, "/") /\ ~ StartsWith(p, "//"))
                 => emit(FALSE, urls[u], p) = Origin(urls[u]) \o p
          /\ (~ StartsWith(p, "/"))
                 => emit(FALSE, urls[u], p) = Directory(urls[u]) \o p
          /\ StartsWith(p, "/") => emit(TRUE, urls[u], p) = Tail(p)
    /\ (~ wordlist_only /\ "/backup.zip" \in paths
        /\ "http://example.com/app/page" \in {urls[u] : u \in 1..Len(urls)})
          => "http://example.com/backup.zip" \in {lines[i] : i \in 1..Len(lines)}

\* C8: once the plain-text output is assembled, its lines are strictly ascending
\* and their set is { emit(u, p) : u in url_list, p aggregated }; in non-wordlist
\* mode a p with one leading slash replaces the whole path of u
\* ("/backup.zip" on "http://example.com/app/page" gives
\* "http://example.com/backup.zip") and a bare p resolves against the directory
\* of u; in wordlist-only mode one leading slash is removed.
C8_TextOutputIsSortedSetOfEmitted ==
    (pc \in {"write", "done"} /\ output.format = "text") =>
        The({ SortedSetOfEmitted(lines, args.wordlist_only, url_list, paths)
              : lines \in {OutputLines(output)}, paths \in {Aggregated} })

\* A plain-text run over two URLs was written: "/backup.zip" joined to the first,
\* and "config.php~", generated from the second, resolved against the directory
\* of the first.
C8_Witness ==
    /\ pc = "done" /\ output.format = "text" /\ ~ args.wordlist_only
    /\ url_list = <<"http://example.com/app/page", "http://example.com/config.php">>
    /\ Len(written) = 1
    /\ The({ \E i, j \in 1..Len(lines) :
                 /\ lines[i] = "http://example.com/backup.zip"
                 /\ lines[j] = "http://example.com/app/config.php~"
              : lines \in {OutputLines(written[1])} })

\* C9: the object a run emits as JSON has the key "patterns", and has the key
\* "date-formats" exactly when date mode was requested, with an empty list when
\* neither default nor custom date formats were given, for any number of URLs.
C9_JsonKeys ==
    (output.format = "json") =>
        /\ "patterns" \in DOMAIN output.object
        /\ "date-formats" \in DOMAIN output.object <=> args.date_method
        /\ (args.date_method /\ ~ args.date_default /\ args.date_custom = "")
              => output.object["date-formats"] = {}
        /\ pc = "done" => written = <<output>>

\* JSON was written by a run in date mode with no date formats and no URL.
C9_Witness ==
    /\ pc = "done" /\ Len(written) = 1 /\ written[1].format = "json"
    /\ args.date_method /\ ~ args.date_default /\ args.date_custom = ""
    /\ args.input_urls = <<>>
    /\ DOMAIN written[1].object = {"patterns", "date-formats"}
    /\ written[1].object["date-formats"] = {}

\* A range of the command line is invalid, as main() parses the ranges: the
\* number range always, the date ranges in date mode.
RangeError ==
    \/ process_number_range(args.number_range).raised
    \/ /\ args.date_method
       /\ \/ create_year_range(args.year_range).raised
          \/ create_month_range(args.month_range).raised
          \/ create_day_range(args.day_range).raised

\* The run has its files: stdin is no terminal, the pattern file, the
\* extensions file and the word list load, and the output file, if any, can be
\* written.
InputsLoad ==
    /\ ~ args.stdin_isatty
    /\ args.pattern_file.state = "ok" /\ args.extensions_file.state = "ok"
    /\ args.wordlist.state = "ok"
    /\ args.output_file.state # "unwritable"

\* The run is in the error state.
Failed == pc \in {"except", "exited"}

\* C10 (as claimed): a run that has its files fails only on an invalid range,
\* and then before any generation, with nothing written: neither the URL
\* decomposition and formatting nor the expansion of the patterns raises,
\* whatever the strings; the date ranges count only in date mode.
C10_ErrorsOnlyFromRangeParsing ==
    /\ (Failed /\ InputsLoad) => RangeError /\ final = <<>> /\ written = <<>>
    /\ RangeError => final = <<>> /\ written = <<>>
    /\ ~ args.date_method =>
          year_range = PyNone /\ month_range = PyNone /\ day_range = PyNone
====
